---- MODULE Spec2Model ----
(***************************************************************************)
(* A model of the job-search aggregation pipeline of JimRome102/jobsearcher *)
(* (src/src/job_aggregator.py, main.py, location_filter.py,                *)
(* role_filter.py, models.py).                                             *)
(*                                                                         *)
(* Strings are TLA+ strings handled character by character (Len, SubSeq,   *)
(* \o), so Python's `in`, lower() and strip() are modelled by what they do.*)
(* Python's None is the sentinel None below.                               *)
(***************************************************************************)
EXTENDS Integers, Sequences, FiniteSets, TLC

VARIABLES
    pc,            \* position of the running operation
    location,      \* argument of matches_location_preference / get_location_score
    loc_ok,        \* value returned by matches_location_preference(location)
    loc_score,     \* value returned by get_location_score(location)
    title,         \* argument of the role predicates
    min_level,     \* argument of meets_seniority_requirement
    is_pm,         \* value returned by is_product_manager_role(title)
    level,         \* value returned by get_role_seniority_level(title)
    meets,         \* value returned by meets_seniority_requirement(title, min_level)
    all_jobs,      \* fetch_all_jobs: the merged list, the argument of _deduplicate_jobs
    unique_jobs,   \* the list _deduplicate_jobs returns
    kept,          \* the positions in all_jobs of the jobs in unique_jobs
    idx,           \* fetch_all_jobs: position of the for loop in the source registry
    returned,      \* per source, the list its fetch function returned in this call
    failure,       \* per source, what happened to its fetch: "pending", "none",
                   \* "error" or "timeout" (caught inside the adapter), "raised"
    run,           \* the number of the scheduled run of run_job_search
    db,            \* the rows of the jobs table
    new_jobs,      \* _fetch_jobs: the jobs that passed the ingestion gate
    pipeline_jobs, \* run_job_search: jobs, then filtered_jobs
    outcomes,      \* per job given to the scorer, what the scoring of it met with
    scored_jobs,   \* the list score_jobs_batch returned, with the location scores
    error,         \* the exception run_job_search raised to the scheduler, or "none"
    digest,        \* the jobs of the email digest sent in this run
    repeated,      \* this run follows a completed run and the sources give it the
                   \* output they gave that run
    raw_item,      \* the raw item of a source response given to a _parse_*_job
    parsed_job,    \* the job the _parse_*_job returned
    adapter,       \* the adapter whose request loop runs
    req,           \* the position of the request loop of the adapter
    trace,         \* the requests sent and the delays slept by the adapter, in order
    responses,     \* what each request of the adapter met with
    seed,          \* the hash seed of the running Python process
    process,       \* the number of the running process
    assigned       \* per scraped posting, the external ids given to it so far

vars == <<pc, location, loc_ok, loc_score, title, min_level, is_pm, level, meets,
          all_jobs, unique_jobs, kept, idx, returned, failure,
          run, db, new_jobs, pipeline_jobs, outcomes, scored_jobs, error, digest,
          repeated, raw_item, parsed_job, adapter, req, trace, responses,
          seed, process, assigned>>

locVars == <<location, loc_ok, loc_score>>
roleVars == <<title, min_level, is_pm, level, meets>>
dedupVars == <<all_jobs, unique_jobs, kept>>
fetchVars == <<idx, returned, failure>>
runVars == <<run, db, new_jobs, pipeline_jobs, outcomes, scored_jobs, error, digest,
          repeated>>
parseVars == <<raw_item, parsed_job>>
adapterVars == <<adapter, req, trace, responses>>
scrapeVars == <<seed, process, assigned>>

\* the sources of fetch_all_jobs's registry that the model runs, in
\* registration order
Sources == << "linkedin", "greenhouse", "lever" >>

SourceSet == { Sources[i] : i \in DOMAIN Sources }

\* the variables of the location predicate, before any call
LocationIdle ==
    /\ location = ""
    /\ loc_ok = FALSE
    /\ loc_score = 0

\* the variables of the role predicates, before any call
RoleIdle ==
    /\ title = ""
    /\ min_level = "Senior"
    /\ is_pm = FALSE
    /\ level = "Unknown"
    /\ meets = FALSE

\* the dedup variables, before any call
DedupIdle ==
    /\ all_jobs = <<>>
    /\ unique_jobs = <<>>
    /\ kept = <<>>

\* the variables of fetch_all_jobs, before any call
FetchIdle ==
    /\ idx = 1
    /\ returned = [s \in SourceSet |-> <<>>]
    /\ failure = [s \in SourceSet |-> "pending"]

\* the variables of run_job_search, before the first run, the table empty
RunIdle ==
    /\ run = 1
    /\ db = {}
    /\ new_jobs = <<>>
    /\ pipeline_jobs = <<>>
    /\ outcomes = <<>>
    /\ scored_jobs = <<>>
    /\ error = "none"
    /\ repeated = FALSE
    /\ digest = <<>>

\* the parser variables, before any call
ParseIdle ==
    /\ raw_item = [source |-> "none"]
    /\ parsed_job = [source |-> "none"]

\* the variables of the request loop of an adapter, before any call
AdapterIdle ==
    /\ adapter = "none"
    /\ req = 1
    /\ trace = <<>>
    /\ responses = <<>>

\* the variables of the scraping adapters, before any call
ScrapeIdle ==
    /\ seed = 0
    /\ process = 1
    /\ assigned = <<>>

-----------------------------------------------------------------------------
(* Python values and string primitives *)

\* Python's None (a JSON null, or a dict.get without default on a missing key)
None == "<None>"

\* `not x` for a str-or-None value
Falsy(x) == x = None \/ x = ""

UpperLetters == "ABCDEFGHIJKLMNOPQRSTUVWXYZ"
LowerLetters == "abcdefghijklmnopqrstuvwxyz"

\* str.lower() on one character
LowerChar ==
    [c \in {SubSeq(UpperLetters, i, i) : i \in 1..26} |->
        LET i == CHOOSE k \in 1..26 : SubSeq(UpperLetters, k, k) = c
        IN  SubSeq(LowerLetters, i, i)]

RECURSIVE LowerFrom(_, _)
\* the characters of s from position i on, each one lowercased
LowerFrom(s, i) ==
    IF i > Len(s) THEN ""
    ELSE LET c == SubSeq(s, i, i)
         IN  (IF c \in DOMAIN LowerChar THEN LowerChar[c] ELSE c)
                 \o LowerFrom(s, i + 1)

\* str.lower()
Lower(s) == LowerFrom(s, 1)

IsSpace(c) == c \in {" ", "\t", "\n"}

RECURSIVE Strip(_)
\* str.strip()
Strip(s) ==
    IF s = "" THEN ""
    ELSE IF IsSpace(SubSeq(s, 1, 1)) THEN Strip(SubSeq(s, 2, Len(s)))
    ELSE IF IsSpace(SubSeq(s, Len(s), Len(s))) THEN Strip(SubSeq(s, 1, Len(s) - 1))
    ELSE s

\* `k in s` for two strings
Contains(s, k) ==
    \E i \in 1..(Len(s) - Len(k) + 1) : SubSeq(s, i, i + Len(k) - 1) = k

\* any(k in s for k in ks)
ContainsAny(s, ks) == \E n \in 1..Len(ks) : Contains(s, ks[n])

-----------------------------------------------------------------------------
(* location_filter.py *)

midtown_keywords ==
    << "midtown", "grand central", "times square", "bryant park",
       "rockefeller", "radio city", "madison avenue", "fifth avenue",
       "park avenue", "lexington avenue", "vanderbilt", "murray hill",
       "turtle bay", "herald square", "penn station", "garment district" >>

midtown_streets ==
    << "34th", "35th", "36th", "37th", "38th", "39th", "40th",
       "41st", "42nd", "43rd", "44th", "45th", "46th", "47th",
       "48th", "49th", "50th", "51st", "52nd", "53rd", "54th",
       "55th", "56th", "57th", "58th", "59th" >>

is_midtown_manhattan(loc) ==
    IF Falsy(loc) THEN FALSE
    ELSE LET location_lower == Lower(loc) IN
         IF ContainsAny(location_lower, midtown_keywords) THEN TRUE
         ELSE IF ContainsAny(location_lower, midtown_streets)
                 /\ ContainsAny(location_lower, <<"manhattan", "nyc", "new york">>)
              THEN TRUE
         ELSE FALSE

remote_keywords == << "remote", "work from home", "wfh", "anywhere", "distributed" >>

manhattan_keywords ==
    << "manhattan", "midtown", "downtown", "uptown",
       "lower manhattan", "upper east side", "upper west side",
       "east village", "west village", "soho", "tribeca", "financial district",
       "chelsea", "gramercy", "murray hill", "kips bay", "flatiron",
       "union square", "madison square", "times square", "grand central",
       "columbus circle", "lincoln center", "herald square" >>

bronx_keywords == << "bronx", "fordham", "riverdale", "mott haven" >>

generic_nyc_keywords == << "new york", "nyc", "ny, ny" >>

excluded_boroughs == << "brooklyn", "queens", "staten island" >>

\* a predicate that accepts a generic NYC token whatever borough comes with it
matches_location_preference_no_exclusion(loc) ==
    IF Falsy(loc) THEN FALSE
    ELSE ContainsAny(Lower(loc),
                     remote_keywords \o manhattan_keywords \o bronx_keywords
                         \o generic_nyc_keywords)

\* a predicate that tests the excluded boroughs before the accepted tokens
matches_location_preference_exclusion_first(loc) ==
    IF Falsy(loc) THEN FALSE
    ELSE LET location_lower == Lower(loc) IN
         IF ContainsAny(location_lower, excluded_boroughs) THEN FALSE
         ELSE ContainsAny(location_lower,
                          remote_keywords \o manhattan_keywords \o bronx_keywords
                              \o generic_nyc_keywords)

matches_location_preference(loc) ==
    IF Falsy(loc) THEN FALSE
    ELSE LET location_lower == Lower(loc) IN
         IF ContainsAny(location_lower, remote_keywords) THEN TRUE
         ELSE IF ContainsAny(location_lower, manhattan_keywords) THEN TRUE
         ELSE IF ContainsAny(location_lower, bronx_keywords) THEN TRUE
         ELSE IF ContainsAny(location_lower, generic_nyc_keywords)
                 /\ ~ContainsAny(location_lower, excluded_boroughs)
              THEN TRUE
         ELSE FALSE

score_manhattan_keywords ==
    << "manhattan", "downtown", "uptown", "lower manhattan",
       "upper east", "upper west", "village", "soho", "tribeca" >>

get_location_score(loc) ==
    IF Falsy(loc) \/ ~matches_location_preference(loc) THEN 0
    ELSE LET location_lower == Lower(loc) IN
         IF is_midtown_manhattan(loc) THEN 100
         ELSE IF ContainsAny(location_lower, score_manhattan_keywords) THEN 80
         ELSE IF Contains(location_lower, "bronx") THEN 60
         ELSE IF ContainsAny(location_lower, <<"remote", "work from home", "wfh">>) THEN 50
         ELSE IF Contains(location_lower, "new york") \/ Contains(location_lower, "nyc") THEN 75
         ELSE 0

-----------------------------------------------------------------------------
(* role_filter.py *)

engineer_keywords ==
    << "software engineer", "engineer", "engineering manager",
       "staff engineer", "principal engineer", "senior engineer",
       "backend", "frontend", "full stack", "fullstack",
       "devops", "sre", "site reliability", "infrastructure engineer",
       "data engineer", "ml engineer", "machine learning engineer",
       "solutions engineer", "sales engineer", "security engineer" >>

design_keywords ==
    << "product designer", "ux designer", "ui designer",
       "design", "creative", "visual designer" >>

marketing_keywords ==
    << "product marketing", "marketing manager", "growth marketing",
       "marketing", "brand manager", "communications" >>

data_keywords ==
    << "data scientist", "data analyst", "analytics manager",
       "business intelligence", "data manager" >>

tpm_keywords == << "technical program manager", "tpm" >>

other_rejects ==
    << "recruiter", "talent", "operations", "customer success",
       "account manager", "project manager", "program manager",
       "scrum master", "agile coach", "delivery manager" >>

pm_keywords ==
    << "product manager", "product management", "senior product",
       "principal product", "staff product", "director of product",
       "director, product", "vp product", "vp of product",
       "vice president product", "head of product", "chief product officer",
       "cpo", "group product manager", "group pm", "lead product manager",
       "lead pm", "product lead", "product owner" >>

\* a predicate that takes the word 'product' for enough
is_product_manager_role_product_only(t) ==
    IF Falsy(t) THEN FALSE
    ELSE /\ ~ContainsAny(Lower(t), engineer_keywords \o design_keywords \o marketing_keywords
                                      \o data_keywords \o tpm_keywords \o other_rejects)
         /\ Contains(Lower(t), "product")

\* a variant that looks for the accept keywords before the marketing reject list
is_product_manager_role_accept_first(t) ==
    IF Falsy(t) THEN FALSE
    ELSE LET title_lower == Lower(t) IN
         IF ContainsAny(title_lower, engineer_keywords) THEN FALSE
         ELSE IF ContainsAny(title_lower, design_keywords) THEN FALSE
         ELSE IF Contains(title_lower, "product") /\ ContainsAny(title_lower, pm_keywords)
              THEN TRUE
         ELSE FALSE

is_product_manager_role(t) ==
    IF Falsy(t) THEN FALSE
    ELSE LET title_lower == Lower(t) IN
         IF ContainsAny(title_lower, engineer_keywords) THEN FALSE
         ELSE IF ContainsAny(title_lower, design_keywords) THEN FALSE
         ELSE IF ContainsAny(title_lower, marketing_keywords) THEN FALSE
         ELSE IF ContainsAny(title_lower, data_keywords) THEN FALSE
         ELSE IF ContainsAny(title_lower, tpm_keywords) THEN FALSE
         ELSE IF ContainsAny(title_lower, other_rejects) THEN FALSE
         ELSE IF ~Contains(title_lower, "product") THEN FALSE
         ELSE IF ContainsAny(title_lower, pm_keywords) THEN TRUE
         ELSE FALSE

\* a classification that tests the tiers from the lowest to the highest
get_role_seniority_level_lowest_first(t) ==
    IF Falsy(t) \/ ~is_product_manager_role(t) THEN "Unknown"
    ELSE LET title_lower == Lower(t) IN
         IF ContainsAny(title_lower, <<"senior", "sr.", "sr ", "lead product",
                                       "group product manager", "group pm">>)
         THEN "Senior"
         ELSE IF ContainsAny(title_lower, <<"principal", "staff product">>) THEN "Principal"
         ELSE IF ContainsAny(title_lower, <<"director", "head of product">>) THEN "Director"
         ELSE IF ContainsAny(title_lower, <<"vp product", "vp of product", "vice president">>)
              THEN "VP"
         ELSE IF ContainsAny(title_lower, <<"chief product officer", "cpo">>) THEN "C-Suite"
         ELSE "Mid-Level"

get_role_seniority_level(t) ==
    IF Falsy(t) \/ ~is_product_manager_role(t) THEN "Unknown"
    ELSE LET title_lower == Lower(t) IN
         IF ContainsAny(title_lower, <<"chief product officer", "cpo">>) THEN "C-Suite"
         ELSE IF ContainsAny(title_lower, <<"vp product", "vp of product", "vice president">>)
              THEN "VP"
         ELSE IF ContainsAny(title_lower, <<"director", "head of product">>) THEN "Director"
         ELSE IF ContainsAny(title_lower, <<"principal", "staff product">>) THEN "Principal"
         ELSE IF ContainsAny(title_lower, <<"senior", "sr.", "sr ", "lead product">>)
              THEN "Senior"
         ELSE IF Contains(title_lower, "group product manager")
                 \/ Contains(title_lower, "group pm")
              THEN "Senior"
         ELSE "Mid-Level"

seniority_hierarchy ==
    [ l \in {"C-Suite", "VP", "Director", "Principal", "Senior", "Mid-Level", "Unknown"} |->
        CASE l = "C-Suite"   -> 6
          [] l = "VP"        -> 5
          [] l = "Director"  -> 4
          [] l = "Principal" -> 3
          [] l = "Senior"    -> 2
          [] l = "Mid-Level" -> 1
          [] l = "Unknown"   -> 0 ]

\* seniority_hierarchy.get(key, default)
HierarchyGet(key, default) ==
    IF key \in DOMAIN seniority_hierarchy THEN seniority_hierarchy[key] ELSE default

\* a variant whose comparison is strict
meets_seniority_requirement_strict(t, min) ==
    HierarchyGet(get_role_seniority_level(t), 0) > HierarchyGet(min, 2)

meets_seniority_requirement(t, min) ==
    LET job_level == get_role_seniority_level(t)
        min_level_score == HierarchyGet(min, 2)
        job_level_score == HierarchyGet(job_level, 0)
    IN  job_level_score >= min_level_score

-----------------------------------------------------------------------------
(* Inputs of the role predicates: up to MaxTitleParts fragments joined by a *)
(* space, and every tier as the minimum level.                              *)

MaxTitleParts == 2

TitleFragments ==
    { "Senior", "Product Manager", "Product", "Product Marketing Manager",
      "Engineer", "Design", "Director", "VP of Product", "Chief Product Officer",
      "PRINCIPAL", "Data Analyst", "Technical Program Manager", "Lead" }

RECURSIVE TitleStrings(_)
TitleStrings(n) ==
    IF n = 0 THEN { "" }
    ELSE IF n = 1 THEN TitleFragments
    ELSE { s \o " " \o f : s \in TitleStrings(n - 1), f \in TitleFragments }

Titles == UNION { TitleStrings(n) : n \in 0..MaxTitleParts }

Levels == DOMAIN seniority_hierarchy

InitRole ==
    /\ pc = "role_input"
    /\ title \in Titles
    /\ min_level = "Senior"
    /\ is_pm = FALSE
    /\ level = "Unknown"
    /\ meets = FALSE
    /\ LocationIdle
    /\ DedupIdle
    /\ FetchIdle
    /\ RunIdle
    /\ ParseIdle
    /\ AdapterIdle
    /\ ScrapeIdle

\* one evaluation of the role stage on a job's title (main.py:202-203), the
\* minimum level being any tier
CheckRole ==
    /\ pc = "role_input"
    /\ is_pm' = is_product_manager_role(title)
    /\ level' = get_role_seniority_level(title)
    /\ \E m \in Levels :
          /\ min_level' = m
          /\ meets' = meets_seniority_requirement(title, m)
    /\ pc' = "role_done"
    /\ UNCHANGED <<parseVars, adapterVars, scrapeVars, title, locVars, dedupVars, fetchVars, runVars>>

NextRole == CheckRole

SpecRole == InitRole /\ [][NextRole]_vars

reject_keywords ==
    engineer_keywords \o design_keywords \o marketing_keywords \o data_keywords
        \o tpm_keywords \o other_rejects

\* C7: a title that contains any reject-list keyword is not a product manager
\* role, whatever accept keywords it also contains.
C7_RejectListWins ==
    (pc = "role_done" /\ ContainsAny(Lower(title), reject_keywords)) => ~is_pm

\* C7 witness: 'Senior Product Marketing Manager' has been evaluated; it holds
\* 'product', 'senior product' and the reject keyword 'product marketing'.
C7_Witness ==
    /\ pc = "role_done"
    /\ title = "Senior Product Marketing Manager"
    /\ Contains(Lower(title), "senior product")
    /\ ContainsAny(Lower(title), marketing_keywords)
    /\ ~is_pm

\* the total order of the tiers, lowest first
TierOrder == << "Unknown", "Mid-Level", "Senior", "Principal", "Director", "VP", "C-Suite" >>

TierRank(t) == CHOOSE i \in 1..Len(TierOrder) : TierOrder[i] = t

\* C8: meets_seniority_requirement(title, min_level) is true exactly when the
\* tier of the title is at or above min_level in the total order; a VP or
\* C-Suite title meets 'Senior'; an Unknown title fails every minimum above
\* Mid-Level.
C8_SeniorityTotalOrder ==
    pc = "role_done" =>
        /\ meets <=> (TierRank(level) >= TierRank(min_level))
        /\ (level \in {"VP", "C-Suite"} /\ min_level = "Senior") => meets
        /\ (level = "Unknown" /\ TierRank(min_level) > TierRank("Mid-Level")) => ~meets

\* C8 witness: a title classified VP has been checked against the minimum Senior
C8_Witness ==
    /\ pc = "role_done"
    /\ level = "VP"
    /\ min_level = "Senior"
    /\ meets

\* C22: is_product_manager_role holds exactly for the titles with no
\* reject-list keyword, with the word 'product' and with a qualifying keyword;
\* a title with 'product' and no qualifying keyword is rejected.
C22_AcceptNeedsProductAndKeyword ==
    pc = "role_done" =>
        ( is_pm <=> ( /\ ~ContainsAny(Lower(title), reject_keywords)
                      /\ Contains(Lower(title), "product")
                      /\ ContainsAny(Lower(title), pm_keywords) ) )

\* C22 witness: a title with 'product', no reject keyword and no qualifying
\* keyword has been rejected
C22_Witness ==
    /\ pc = "role_done"
    /\ title = "Product Director"
    /\ ~is_pm

\* the keywords of a tier in get_role_seniority_level
TierKeywords(tier) ==
    CASE tier = "C-Suite" -> <<"chief product officer", "cpo">>
      [] tier = "VP" -> <<"vp product", "vp of product", "vice president">>
      [] tier = "Director" -> <<"director", "head of product">>
      [] tier = "Principal" -> <<"principal", "staff product">>
      [] tier = "Senior" -> <<"senior", "sr.", "sr ", "lead product",
                              "group product manager", "group pm">>

\* the tiers that have a keyword in the title
MatchedTiers(t) ==
    { tier \in { "C-Suite", "VP", "Director", "Principal", "Senior" } :
        ContainsAny(Lower(t), TierKeywords(tier)) }

\* the highest tier of a non-empty set of tiers
HighestTier(tiers) ==
    CHOOSE x \in tiers : \A y \in tiers : TierRank(x) >= TierRank(y)

\* C23 as stated: for any title with a tier keyword, get_role_seniority_level
\* returns the highest tier that has a keyword in the title.
C23_HighestTierWins ==
    (pc = "role_done" /\ MatchedTiers(title) # {}) =>
        level = HighestTier(MatchedTiers(title))

\* C23 amended: for a title that is_product_manager_role accepts and that has
\* a tier keyword, get_role_seniority_level returns the highest tier that has
\* a keyword in the title; for a title it does not accept, 'Unknown'.
C23_HighestTierWinsForPmTitles ==
    pc = "role_done" =>
        /\ (is_pm /\ MatchedTiers(title) # {}) => level = HighestTier(MatchedTiers(title))
        /\ ~is_pm => level = "Unknown"

\* C23 witness: an accepted title with keywords of the tiers Senior and VP
C23_Witness ==
    /\ pc = "role_done"
    /\ title = "Senior VP of Product"
    /\ is_pm
    /\ level = "VP"

-----------------------------------------------------------------------------
(* job_aggregator.py: the job dicts and _deduplicate_jobs *)

\* a job dict as the parsers build it (the fields the pipeline reads)
Job(ext, src, t, c, loc) ==
    [external_id |-> ext, source |-> src, title |-> t, company |-> c, location |-> loc]

\* all sequences over S of length at most n
SeqsUpTo(S, n) == UNION { [1..k -> S] : k \in 0..n }

\* job.get('title', '').lower().strip() raises AttributeError on a None title
\* (the key is present, its value is null), and so for the company
DedupRaises(jobs) ==
    \E i \in DOMAIN jobs : jobs[i].title = None \/ jobs[i].company = None

\* a key that compares the raw title and company
DedupKeyRaw(job) == <<job.title, job.company>>

\* key = (title.lower().strip(), company.lower().strip())
DedupKey(job) == <<Strip(Lower(job.title)), Strip(Lower(job.company))>>

RECURSIVE DedupLoop(_, _, _, _)
\* the for loop of _deduplicate_jobs from position i on; the result is the
\* list of the positions whose job was appended to unique_jobs
DedupLoop(jobs, i, seen, unique) ==
    IF i > Len(jobs) THEN unique
    ELSE LET key == DedupKey(jobs[i]) IN
         IF key \notin seen
         THEN DedupLoop(jobs, i + 1, seen \cup {key}, Append(unique, i))
         ELSE DedupLoop(jobs, i + 1, seen, unique)

KeptPositions(jobs) == DedupLoop(jobs, 1, {}, <<>>)

deduplicate_jobs(jobs) ==
    LET positions == KeptPositions(jobs)
    IN  [k \in 1..Len(positions) |-> jobs[positions[k]]]

-----------------------------------------------------------------------------
(* Inputs of _deduplicate_jobs: every batch of at most MaxBatch jobs drawn   *)
(* from external ids, titles and companies that differ in case and blanks.   *)

MaxBatch == 2

DedupCatalogue ==
    { Job(e, "greenhouse", t, c, "Remote") :
        e \in { "", "greenhouse_42", "lever_7" },
        t \in { "Senior Product Manager", " senior product manager", "VP of Product", None },
        c \in { "Stripe", "STRIPE " } }

InitDedup ==
    /\ pc = "dedup_input"
    /\ all_jobs \in SeqsUpTo(DedupCatalogue, MaxBatch)
    /\ unique_jobs = <<>>
    /\ kept = <<>>
    /\ LocationIdle
    /\ RoleIdle
    /\ FetchIdle
    /\ RunIdle
    /\ ParseIdle
    /\ AdapterIdle
    /\ ScrapeIdle

\* _deduplicate_jobs(all_jobs) returns
DedupReturns ==
    /\ pc = "dedup_input"
    /\ ~DedupRaises(all_jobs)
    /\ unique_jobs' = deduplicate_jobs(all_jobs)
    /\ kept' = KeptPositions(all_jobs)
    /\ pc' = "dedup_done"
    /\ UNCHANGED <<parseVars, adapterVars, scrapeVars, all_jobs, locVars, roleVars, fetchVars, runVars>>

\* _deduplicate_jobs(all_jobs) raises
DedupFails ==
    /\ pc = "dedup_input"
    /\ DedupRaises(all_jobs)
    /\ pc' = "dedup_raised"
    /\ UNCHANGED <<parseVars, adapterVars, scrapeVars, dedupVars, locVars, roleVars, fetchVars, runVars>>

NextDedup == DedupReturns \/ DedupFails

SpecDedup == InitDedup /\ [][NextDedup]_vars

\* the positions of the input jobs that carry external id e
WithId(jobs, e) == { i \in DOMAIN jobs : jobs[i].external_id = e }

\* the smallest element of a non-empty set of positions
First(P) == CHOOSE i \in P : \A j \in P : i <= j

\* the set of the elements of a sequence of positions
Range(f) == { f[k] : k \in DOMAIN f }

\* C1: when two or more input jobs carry the same non-empty external_id, the
\* output holds exactly one job with that external_id, the first in input order.
C1_OnePerExternalId ==
    pc = "dedup_done" =>
        \A e \in { all_jobs[i].external_id : i \in DOMAIN all_jobs } \ { "", None } :
            Cardinality(WithId(all_jobs, e)) >= 2 =>
                Range(kept) \cap WithId(all_jobs, e) = { First(WithId(all_jobs, e)) }

\* the normalized pair of the claim: trimmed, lowercased title and company
NormalizedPair(job) == <<Lower(Strip(job.title)), Lower(Strip(job.company))>>

\* the positions of the input jobs whose normalized pair is that of job i
SamePair(jobs, i) ==
    { j \in DOMAIN jobs : NormalizedPair(jobs[j]) = NormalizedPair(jobs[i]) }

\* no two jobs of the output have the same normalized pair
UniquePairs(out) ==
    \A a, b \in DOMAIN out : NormalizedPair(out[a]) = NormalizedPair(out[b]) => a = b

\* C9 as stated: the output has unique normalized pairs, and of the input jobs
\* with an empty external_id and one normalized pair exactly one survives, the
\* first of them.
C9_EmptyIdGroupKeepsOne ==
    pc = "dedup_done" =>
        /\ UniquePairs(unique_jobs)
        /\ \A i \in DOMAIN all_jobs :
              LET G == { j \in SamePair(all_jobs, i) : all_jobs[j].external_id = "" }
              IN  G # {} => Range(kept) \cap G = { First(G) }

\* C9 amended: the output has unique normalized pairs, and of the input jobs
\* with one normalized pair, whatever their external ids, exactly one survives,
\* the first of them; the output is the survivors in input order.
C9_PairGroupKeepsFirst ==
    pc = "dedup_done" =>
        /\ UniquePairs(unique_jobs)
        /\ \A i \in DOMAIN all_jobs :
              Range(kept) \cap SamePair(all_jobs, i) = { First(SamePair(all_jobs, i)) }
        /\ Len(unique_jobs) = Len(kept)
        /\ \A k \in DOMAIN kept : unique_jobs[k] = all_jobs[kept[k]]
        /\ \A k \in DOMAIN kept : k > 1 => kept[k - 1] < kept[k]

\* C9 witness: two jobs with an empty external_id whose titles and companies
\* differ only in case and blanks went in, and one came out
C9_Witness ==
    /\ pc = "dedup_done"
    /\ Len(all_jobs) = 2
    /\ all_jobs[1].external_id = "" /\ all_jobs[2].external_id = ""
    /\ all_jobs[1].title # all_jobs[2].title
    /\ all_jobs[1].company # all_jobs[2].company
    /\ unique_jobs = <<all_jobs[1]>>

\* a record whose title and company are strings
WellFormed(job) == job.title # None /\ job.company # None

\* C14: when a record of the batch is malformed (its title or company is
\* null), _deduplicate_jobs drops that record only: it returns, and what it
\* returns is what it returns for the batch without the malformed records.
C14_MalformedRecordDropped ==
    pc # "dedup_input" =>
        /\ pc = "dedup_done"
        /\ unique_jobs = deduplicate_jobs(SelectSeq(all_jobs, WellFormed))

-----------------------------------------------------------------------------
(* job_aggregator.py: fetch_all_jobs *)

\* the jobs a source can have on offer
SourceJobs(s) ==
    CASE s = "linkedin" ->
           { Job("", "linkedin", "Senior Product Manager", "Stripe", "New York, NY"),
             Job("3001", "linkedin", None, "Plaid", "Remote") }
      [] s = "greenhouse" ->
           { Job("greenhouse_42", "greenhouse", "Senior Product Manager", "stripe", "Remote"),
             Job("greenhouse_42", "greenhouse", "Principal Product Manager", "stripe",
                 "Brooklyn, NY") }
      [] s = "lever" ->
           { Job("lever_7", "lever", " senior product manager", "Stripe", "Manhattan"),
             Job("lever_8", "lever", "VP of Product", "netflix", "Midtown") }

\* the longest list one adapter returns
MaxFeed == 1

\* the sources whose requests carry no timeout (requests.get(url, params=...,
\* headers=...) in fetch_linkedin_jobs)
NoTimeoutSources == { "linkedin" }

InitFetch ==
    /\ pc = "fetch_loop"
    /\ FetchIdle
    /\ DedupIdle
    /\ LocationIdle
    /\ RoleIdle
    /\ RunIdle
    /\ ParseIdle
    /\ AdapterIdle
    /\ ScrapeIdle

\* line 65: the loop calls the fetch function of the next source
CallAdapter ==
    /\ pc = "fetch_loop"
    /\ idx <= Len(Sources)
    /\ pc' = "fetch_call"
    /\ UNCHANGED <<parseVars, adapterVars, scrapeVars, idx, returned, failure, dedupVars, locVars, roleVars, runVars>>

\* a loop that puts the list of an adapter ahead of the lists before it
AdapterReturnsPrepended ==
    /\ pc = "fetch_call"
    /\ \E jobs \in SeqsUpTo(SourceJobs(Sources[idx]), MaxFeed),
          f \in { "none", "error", "timeout" } :
          /\ all_jobs' = jobs \o all_jobs
          /\ returned' = [returned EXCEPT ![Sources[idx]] = jobs]
          /\ failure' = [failure EXCEPT ![Sources[idx]] = f]
    /\ idx' = idx + 1
    /\ pc' = "fetch_loop"
    /\ UNCHANGED <<parseVars, adapterVars, scrapeVars, unique_jobs, kept, locVars, roleVars, runVars>>

\* lines 65-68: the fetch function returns a list, all_jobs is extended with
\* it. A network, parse or auth failure or a timeout inside the adapter is
\* caught there (job_aggregator.py:114, :236, :316) and the adapter returns
\* what its other requests produced.
AdapterReturns ==
    /\ pc = "fetch_call"
    /\ \E jobs \in SeqsUpTo(SourceJobs(Sources[idx]), MaxFeed),
          f \in { "none", "error", "timeout" } :
          /\ all_jobs' = all_jobs \o jobs
          /\ returned' = [returned EXCEPT ![Sources[idx]] = jobs]
          /\ failure' = [failure EXCEPT ![Sources[idx]] = f]
    /\ idx' = idx + 1
    /\ pc' = "fetch_loop"
    /\ UNCHANGED <<parseVars, adapterVars, scrapeVars, unique_jobs, kept, locVars, roleVars, runVars>>

\* a loop without the try/except of lines 64-70
AdapterRaisesUncaught ==
    /\ pc = "fetch_call"
    /\ failure' = [failure EXCEPT ![Sources[idx]] = "raised"]
    /\ pc' = "fetch_raised"
    /\ UNCHANGED <<parseVars, adapterVars, scrapeVars, idx, returned, dedupVars, locVars, roleVars, runVars>>

\* lines 69-70: the fetch function raises, the loop prints and goes on
AdapterRaises ==
    /\ pc = "fetch_call"
    /\ failure' = [failure EXCEPT ![Sources[idx]] = "raised"]
    /\ idx' = idx + 1
    /\ pc' = "fetch_loop"
    /\ UNCHANGED <<parseVars, adapterVars, scrapeVars, returned, dedupVars, locVars, roleVars, runVars>>

\* line 103: a request without timeout whose response never arrives
AdapterHangs ==
    /\ pc = "fetch_call"
    /\ Sources[idx] \in NoTimeoutSources
    /\ pc' = "fetch_hung"
    /\ UNCHANGED <<parseVars, adapterVars, scrapeVars, fetchVars, dedupVars, locVars, roleVars, runVars>>

\* lines 72-76: the loop is over, the merged list is deduplicated and returned
FetchReturns ==
    /\ pc = "fetch_loop"
    /\ idx > Len(Sources)
    /\ ~DedupRaises(all_jobs)
    /\ unique_jobs' = deduplicate_jobs(all_jobs)
    /\ kept' = KeptPositions(all_jobs)
    /\ pc' = "fetch_returned"
    /\ UNCHANGED <<parseVars, adapterVars, scrapeVars, all_jobs, fetchVars, locVars, roleVars, runVars>>

\* line 73: _deduplicate_jobs raises, and fetch_all_jobs with it
FetchRaises ==
    /\ pc = "fetch_loop"
    /\ idx > Len(Sources)
    /\ DedupRaises(all_jobs)
    /\ pc' = "fetch_raised"
    /\ UNCHANGED <<parseVars, adapterVars, scrapeVars, dedupVars, fetchVars, locVars, roleVars, runVars>>

NextFetch ==
    \/ CallAdapter
    \/ AdapterReturns
    \/ AdapterRaises
    \/ AdapterHangs
    \/ FetchReturns
    \/ FetchRaises

SpecFetch == InitFetch /\ [][NextFetch]_vars

RECURSIVE ConcatReturned(_)
\* the lists the first n sources returned, one after the other
ConcatReturned(n) ==
    IF n = 0 THEN <<>> ELSE ConcatReturned(n - 1) \o returned[Sources[n]]

\* C3: whatever adapters fail, the loop calls every adapter, the merged list
\* holds every job that every adapter returned, and fetch_all_jobs returns; it
\* raises only when _deduplicate_jobs does, on a record of the merged list.
C3_SourceFailuresIsolated ==
    /\ pc \in { "fetch_returned", "fetch_raised" } =>
          /\ \A s \in SourceSet : failure[s] # "pending"
          /\ all_jobs = ConcatReturned(Len(Sources))
    /\ pc = "fetch_raised" => (idx > Len(Sources) /\ DedupRaises(all_jobs))

\* C3 witness: one adapter raised, one failed inside, the third returned a
\* job, and fetch_all_jobs returned that job
C3_Witness ==
    /\ pc = "fetch_returned"
    /\ failure["linkedin"] = "raised"
    /\ failure["greenhouse"] = "timeout"
    /\ failure["lever"] = "none"
    /\ returned["lever"] # <<>>
    /\ unique_jobs = returned["lever"]

\* the sources for which the value fetch_all_jobs returns carries an error entry
ReportedErrors(ret) ==
    { ret[k].source : k \in { n \in DOMAIN ret : "error" \in DOMAIN ret[n] } }

\* C4: what fetch_all_jobs returns records an error for every adapter that
\* failed or timed out.
C4_FailuresReported ==
    pc = "fetch_returned" =>
        \A s \in SourceSet :
            failure[s] \in { "error", "timeout", "raised" } => s \in ReportedErrors(unique_jobs)

\* C5: fetch_all_jobs eventually returns in every execution: as long as it has
\* not returned (or raised), it has a next step to take, so no adapter blocks
\* it for ever.
C5_FetchNeverBlocked ==
    pc \in { "fetch_returned", "fetch_raised" } \/ ENABLED NextFetch

\* the position of a source in the registry
Registration(s) == CHOOSE i \in DOMAIN Sources : Sources[i] = s

\* C26: the list handed to the deduplicator is the lists of the adapters one
\* after the other in registration order, so its jobs are in the order of
\* registration of their sources, and of the jobs with one normalized
\* (title, company) the one that survives is of the earliest-registered source
\* among them.
C26_MergedInRegistrationOrder ==
    pc = "fetch_returned" =>
        /\ \A i, j \in DOMAIN all_jobs :
              i < j => Registration(all_jobs[i].source) <= Registration(all_jobs[j].source)
        /\ \A k \in DOMAIN unique_jobs : \A j \in DOMAIN all_jobs :
              NormalizedPair(all_jobs[j]) = NormalizedPair(unique_jobs[k])
                  => Registration(unique_jobs[k].source) <= Registration(all_jobs[j].source)

\* C26 witness: the second and the third source returned a job with the same
\* normalized pair, and the job of the second source is the one returned
C26_Witness ==
    /\ pc = "fetch_returned"
    /\ returned["greenhouse"] # <<>>
    /\ returned["lever"] # <<>>
    /\ NormalizedPair(returned["greenhouse"][1]) = NormalizedPair(returned["lever"][1])
    /\ unique_jobs = returned["greenhouse"]

\* the loop of fetch_all_jobs is at the call of the fetch function of source s
CanStart(s) ==
    /\ pc = "fetch_loop"
    /\ idx <= Len(Sources)
    /\ Sources[idx] = s

\* C18: while the fetch of one adapter is in progress or hung, every other
\* adapter that has not run yet can start its own fetch.
C18_AdaptersDoNotBlockEachOther ==
    pc \in { "fetch_call", "fetch_hung" } =>
        \A s \in SourceSet :
            (s # Sources[idx] /\ failure[s] = "pending") => CanStart(s)

-----------------------------------------------------------------------------
(* Inputs of the location predicate: up to MaxLocParts fragments, joined by *)
(* a space or by ", ".                                                      *)

MaxLocParts == 2

LocFragments ==
    { "Remote", "Brooklyn", "QUEENS", "Staten Island", "Manhattan", "Midtown",
      "Downtown", "Bronx", "New York", "NYC", "NY", "Austin", "Riverdale" }

LocSeparators == { " ", ", " }

RECURSIVE LocStrings(_)
LocStrings(n) ==
    IF n = 0 THEN { "" }
    ELSE IF n = 1 THEN LocFragments
    ELSE { s \o sep \o f : s \in LocStrings(n - 1), sep \in LocSeparators, f \in LocFragments }

Locations == UNION { LocStrings(n) : n \in 0..MaxLocParts }

InitLocation ==
    /\ pc = "loc_input"
    /\ location \in Locations
    /\ loc_ok = FALSE
    /\ loc_score = 0
    /\ RoleIdle
    /\ DedupIdle
    /\ FetchIdle
    /\ RunIdle
    /\ ParseIdle
    /\ AdapterIdle
    /\ ScrapeIdle

\* one evaluation of the location stage on a job's location (main.py:196, :121)
CheckLocation ==
    /\ pc = "loc_input"
    /\ loc_ok' = matches_location_preference(location)
    /\ loc_score' = get_location_score(location)
    /\ pc' = "loc_done"
    /\ UNCHANGED <<parseVars, adapterVars, scrapeVars, location, roleVars, dedupVars, fetchVars, runVars>>

NextLocation == CheckLocation

SpecLocation == InitLocation /\ [][NextLocation]_vars

\* C6: every location that contains an excluded-borough token is rejected,
\* whatever remote, Manhattan, Bronx or generic NYC tokens it also contains.
C6_ExclusionOverridesInclusion ==
    (pc = "loc_done" /\ ContainsAny(Lower(location), excluded_boroughs)) => ~loc_ok

\* the remote tokens and the tokens of the allow-list
AcceptTokens == remote_keywords \o manhattan_keywords \o bronx_keywords

C21_GenericNycUnlessExcluded ==
    pc = "loc_done" =>
        /\ ( /\ ContainsAny(Lower(location), generic_nyc_keywords)
             /\ ~ContainsAny(Lower(location), AcceptTokens) )
           => (loc_ok <=> ~ContainsAny(Lower(location), excluded_boroughs))
        /\ location = "Brooklyn, NY" => ~loc_ok

\* C21 witness: a generic NYC token with an excluded borough has been rejected
C21_Witness ==
    /\ pc = "loc_done"
    /\ location = "Brooklyn, NYC"
    /\ ~loc_ok

\* the scores of the accepted tiers: Midtown, other Manhattan, Bronx, Remote
AcceptedTierScores == { 100, 80, 60, 50 }

\* C24: an accepted location has the score of one of the accepted tiers, and
\* none below that of the remote tier.
C24_AcceptedLocationHasTierScore ==
    (pc = "loc_done" /\ loc_ok) =>
        /\ loc_score \in AcceptedTierScores
        /\ loc_score >= 50

-----------------------------------------------------------------------------
(* job_aggregator.py: _parse_linkedin_job, _parse_greenhouse_job,           *)
(* _parse_lever_job, _parse_date                                            *)

\* a key that the raw item does not have
Missing == "<Missing>"

\* dict.get(key, default) on the value v the raw item holds under the key
Get(v, default) == IF v = Missing THEN default ELSE v

\* str(v), and v inside an f-string
Str(v) == IF v = None THEN "None" ELSE v

\* the values a raw item can hold under a key for a text or an id
RawValues(text) == { Missing, None, text }

\* the values a raw item can hold under a key for a date
RawDates == { Missing, None, "2024-05-01T09:00:00Z", "yesterday" }

\* the values a raw item can hold under a key for a nested dict with one key
RawDicts(text) ==
    { [kind |-> "missing"], [kind |-> "null"] }
        \cup { [kind |-> "dict", value |-> v] : v \in RawValues(text) }

\* lines 1415-1430: _parse_date
parse_date(date_str) ==
    IF date_str \in { Missing, None, "" } THEN "utcnow"
    ELSE IF date_str = "2024-05-01T09:00:00Z" THEN "datetime(2024, 5, 1, 9, 0)"
    ELSE "utcnow"

\* job.get(key, {}).get(inner, '') raises on a null under key
NestedGetRaises(d) == d.kind = "null"

\* job.get(key, {}).get(inner, '')
NestedGet(d) == IF d.kind = "dict" THEN Get(d.value, "") ELSE ""

\* lines 1238-1250
parse_linkedin_job(job) ==
    [ external_id |-> Str(Get(job.id, "")),
      source |-> "linkedin",
      title |-> Get(job.title, ""),
      company |-> Get(job.companyName, ""),
      location |-> Get(job.location, ""),
      description |-> Get(job.description, ""),
      url |-> Get(job.url, ""),
      posted_date |-> parse_date(job.listedAt),
      job_type |-> Get(job.employmentType, "") ]

\* lines 1264-1275
parse_greenhouse_job(job, company) ==
    [ external_id |-> "greenhouse_" \o Str(Get(job.id, "")),
      source |-> "greenhouse",
      title |-> Get(job.title, ""),
      company |-> company,
      location |-> NestedGet(job.location),
      description |-> Get(job.content, ""),
      url |-> Get(job.absolute_url, ""),
      posted_date |-> parse_date(job.updated_at) ]

\* lines 1277-1288
parse_lever_job(job, company) ==
    [ external_id |-> "lever_" \o Str(Get(job.id, "")),
      source |-> "lever",
      title |-> Get(job.text, ""),
      company |-> company,
      location |-> NestedGet(job.categories),
      description |-> Get(job.description, ""),
      url |-> Get(job.hostedUrl, ""),
      posted_date |-> parse_date(job.createdAt) ]

\* the raw items of the three sources
RawItems ==
    [ source : { "linkedin" }, id : RawValues("3001"),
      title : RawValues("Senior Product Manager"), companyName : { Missing, "Stripe" },
      location : RawValues("New York, NY"), description : RawValues("Own the roadmap"),
      url : { None, "https://linkedin.com/jobs/3001" }, listedAt : RawDates,
      employmentType : { Missing } ]
    \cup
    [ source : { "greenhouse" }, id : RawValues("42"),
      title : RawValues("Senior Product Manager"), location : RawDicts("Remote"),
      content : RawValues("Own the roadmap"),
      absolute_url : RawValues("https://boards.greenhouse.io/stripe/jobs/42"),
      updated_at : RawDates ]
    \cup
    [ source : { "lever" }, id : RawValues("7"),
      text : RawValues("Senior Product Manager"), categories : RawDicts("Manhattan"),
      description : RawValues("Own the roadmap"),
      hostedUrl : RawValues("https://jobs.lever.co/netflix/7"),
      createdAt : RawDates ]

\* the parser of the source of a raw item, applied to it
ParseItem(job) ==
    CASE job.source = "linkedin" -> parse_linkedin_job(job)
      [] job.source = "greenhouse" -> parse_greenhouse_job(job, "stripe")
      [] job.source = "lever" -> parse_lever_job(job, "netflix")

\* the parser of the source of a raw item raises on it
ParseItemRaises(job) ==
    CASE job.source = "linkedin" -> FALSE
      [] job.source = "greenhouse" -> NestedGetRaises(job.location)
      [] job.source = "lever" -> NestedGetRaises(job.categories)

InitParse ==
    /\ pc = "parse_input"
    /\ raw_item \in RawItems
    /\ parsed_job = [source |-> "none"]
    /\ AdapterIdle
    /\ ScrapeIdle
    /\ RunIdle
    /\ FetchIdle
    /\ DedupIdle
    /\ LocationIdle
    /\ RoleIdle

\* the parser returns a job, the adapter appends it to its list
ParseReturns ==
    /\ pc = "parse_input"
    /\ ~ParseItemRaises(raw_item)
    /\ parsed_job' = ParseItem(raw_item)
    /\ pc' = "parse_done"
    /\ UNCHANGED <<raw_item, adapterVars, scrapeVars, runVars, fetchVars, dedupVars, locVars, roleVars>>

\* the parser raises, into the try of the adapter's request loop
ParseRaises ==
    /\ pc = "parse_input"
    /\ ParseItemRaises(raw_item)
    /\ pc' = "parse_raised"
    /\ UNCHANGED <<parseVars, adapterVars, scrapeVars, runVars, fetchVars, dedupVars, locVars, roleVars>>

NextParse == ParseReturns \/ ParseRaises

SpecParse == InitParse /\ [][NextParse]_vars

\* the fields of the canonical job
CanonicalFields ==
    { "external_id", "source", "title", "company", "location", "description", "url",
      "posted_date" }

\* C19: a job that a parser returns has every canonical field, and its title,
\* company, location, description and url are strings, never null, whatever
\* the raw item lacks or holds as null.
C19_CanonicalFieldsPresent ==
    pc = "parse_done" =>
        /\ CanonicalFields \subseteq DOMAIN parsed_job
        /\ parsed_job.title # None
        /\ parsed_job.company # None
        /\ parsed_job.location # None
        /\ parsed_job.description # None
        /\ parsed_job.url # None

-----------------------------------------------------------------------------
(* job_aggregator.py: the request loops of fetch_linkedin_jobs,             *)
(* fetch_greenhouse_jobs and fetch_lever_jobs                               *)

\* the adapters with a loop of requests
LoopAdapters == { "linkedin", "greenhouse", "lever" }

\* the number of requests of the loop: keyword x location pairs, or companies
MaxRequests == 3

\* what a request can meet with when it does not raise: status 200 with
\* items, status 200 without, another status
Responses == { "200 items", "200 empty", "status 403" }

InitAdapter ==
    /\ pc = "adapter_loop"
    /\ adapter \in LoopAdapters
    /\ req = 1
    /\ trace = <<>>
    /\ responses = <<>>
    /\ ScrapeIdle
    /\ ParseIdle
    /\ RunIdle
    /\ FetchIdle
    /\ DedupIdle
    /\ LocationIdle
    /\ RoleIdle

\* lines 103, 225, 305: the loop sends the request of its next turn
SendRequest ==
    /\ pc = "adapter_loop"
    /\ req <= MaxRequests
    /\ trace' = Append(trace, "request")
    /\ pc' = "adapter_request"
    /\ UNCHANGED <<adapter, req, responses, scrapeVars, parseVars, runVars, fetchVars,
                   dedupVars, locVars, roleVars>>

\* lines 105-112, 227-234, 307-314: the response is handled, then
\* time.sleep() runs, the last statement of the try block
RequestReturns ==
    /\ pc = "adapter_request"
    /\ \E r \in Responses : responses' = Append(responses, r)
    /\ trace' = Append(trace, "sleep")
    /\ req' = req + 1
    /\ pc' = "adapter_loop"
    /\ UNCHANGED <<adapter, scrapeVars, parseVars, runVars, fetchVars, dedupVars, locVars,
                   roleVars>>

\* lines 114-115, 236-238, 316-318: the request, response.json() or a parser
\* raises; the except clause ends the turn
RequestRaises ==
    /\ pc = "adapter_request"
    /\ responses' = Append(responses, "raised")
    /\ req' = req + 1
    /\ pc' = "adapter_loop"
    /\ UNCHANGED <<adapter, trace, scrapeVars, parseVars, runVars, fetchVars, dedupVars,
                   locVars, roleVars>>

\* line 103: a request without timeout whose response never arrives
RequestHangs ==
    /\ pc = "adapter_request"
    /\ adapter \in NoTimeoutSources
    /\ pc' = "adapter_hung"
    /\ UNCHANGED <<adapterVars, scrapeVars, parseVars, runVars, fetchVars, dedupVars,
                   locVars, roleVars>>

\* lines 117, 240, 320: the loop is over, the adapter returns its jobs
AdapterLoopEnds ==
    /\ pc = "adapter_loop"
    /\ req > MaxRequests
    /\ pc' = "adapter_returned"
    /\ UNCHANGED <<adapterVars, scrapeVars, parseVars, runVars, fetchVars, dedupVars,
                   locVars, roleVars>>

NextAdapter ==
    \/ SendRequest
    \/ RequestReturns
    \/ RequestRaises
    \/ RequestHangs
    \/ AdapterLoopEnds

SpecAdapter == InitAdapter /\ [][NextAdapter]_vars

\* C25: between every two consecutive requests of an adapter its delay
\* elapses, also when the earlier request raised or returned an error.
C25_DelayBetweenRequests ==
    \A i \in DOMAIN trace :
        (trace[i] = "request" /\ i < Len(trace)) => trace[i + 1] = "sleep"

-----------------------------------------------------------------------------
(* job_aggregator.py: the external ids of fetch_glassdoor_jobs and          *)
(* fetch_builtin_jobs                                                       *)

\* the hash seeds a Python process can start with (PYTHONHASHSEED is random
\* when it is not set)
Seeds == { 0, 1, 2 }

\* the number of processes that run the job search, one after the other
MaxProcesses == 2

\* the job cards of the scraped page: the href of the link of the card, ''
\* when the card has none, and its title
Postings ==
    { [url |-> "", title |-> "Senior Product Manager"],
      [url |-> "", title |-> "VP of Product"],
      [url |-> "https://www.glassdoor.com/job/1", title |-> "Senior Product Manager"],
      [url |-> "https://www.glassdoor.com/job/2", title |-> "VP of Product"] }

\* the number hash() has for a string in a process started with seed sd:
\* 0 for the empty string, for the others a number that depends on the seed
StrHash(str, sd) ==
    IF str = "" THEN 0
    ELSE IF str = "https://www.glassdoor.com/job/1" THEN 10 + sd
    ELSE 20 + sd

\* lines 603, 655: f"glassdoor_{hash(job_url)}", as a pair of prefix and number
ExternalIdOf(posting, sd) == <<"glassdoor", StrHash(posting.url, sd)>>

InitScrape ==
    /\ pc = "scrape"
    /\ seed \in Seeds
    /\ process = 1
    /\ assigned = [p \in Postings |-> {}]
    /\ AdapterIdle
    /\ ParseIdle
    /\ RunIdle
    /\ FetchIdle
    /\ DedupIdle
    /\ LocationIdle
    /\ RoleIdle

\* lines 579-612: a run of the adapter in the running process finds a card
\* and gives it its external id
ScrapePosting ==
    /\ pc = "scrape"
    /\ \E p \in Postings :
          assigned' = [assigned EXCEPT ![p] = @ \cup { ExternalIdOf(p, seed) }]
    /\ UNCHANGED <<pc, seed, process, adapterVars, parseVars, runVars, fetchVars, dedupVars,
                   locVars, roleVars>>

\* the process ends and the job search is started again (the scheduler is
\* restarted, or main.py is run by hand)
RestartProcess ==
    /\ pc = "scrape"
    /\ process < MaxProcesses
    /\ process' = process + 1
    /\ seed' \in Seeds
    /\ UNCHANGED <<pc, assigned, adapterVars, parseVars, runVars, fetchVars, dedupVars,
                   locVars, roleVars>>

NextScrape == ScrapePosting \/ RestartProcess

SpecScrape == InitScrape /\ [][NextScrape]_vars

\* C28: the external id of a scraped posting is a function of the posting:
\* a posting gets the same id in every run and process, and two different
\* postings get different ids.
C28_ExternalIdFunctionOfPosting ==
    pc = "scrape" =>
        /\ \A p \in Postings : Cardinality(assigned[p]) <= 1
        /\ \A p, q \in Postings : p # q => assigned[p] \cap assigned[q] = {}

-----------------------------------------------------------------------------
(* main.py: run_job_search, _fetch_jobs, _save_jobs_to_db *)

\* float(os.getenv('MIN_MATCH_SCORE', 70))
min_match_score == 70

\* lines 183-186: the external ids of the rows of the jobs table
existing_external_ids == { row.external_id : row \in db }

\* lines 188-191: job.get('external_id') not in existing_external_ids
PassesGate(job) == job.external_id \notin existing_external_ids

\* a location filter that lets every job through
PassesLocationAny(job) == TRUE

\* a location filter that asks for a location only
PassesLocationNonEmpty(job) == ~Falsy(job.location)

\* line 196
PassesLocation(job) == matches_location_preference(job.location)

\* lines 202-203; min_level is the default, 'Senior'
PassesRole(job) ==
    is_product_manager_role(job.title) /\ meets_seniority_requirement(job.title, "Senior")

\* the scores a response of the provider can carry
Scores == { 50, 70, 150 }

\* what the scoring of one job can meet with: a response with a SCORE line, a
\* response without one, an error of the API call, an exception in score_job
\* outside the provider call (_build_matching_prompt)
ScorerOutcomes ==
    { [kind |-> "response", score |-> n] : n \in Scores }
        \cup { [kind |-> "unparseable"], [kind |-> "api_error"], [kind |-> "raised"] }

\* ai_matcher.py:148-168: the score and the reasoning read from a response
parse_score_response(o) ==
    IF o.kind = "response"
    THEN [score |-> o.score, reasoning |-> "reasoning"]
    ELSE [score |-> 50, reasoning |-> "response"]

\* ai_matcher.py:110-126
score_with_anthropic(o) ==
    IF o.kind = "api_error"
    THEN [score |-> 0, reasoning |-> "Error"]
    ELSE parse_score_response(o)

\* ai_matcher.py:48-62: one turn of the loop of score_jobs_batch
score_job_in_batch(o) ==
    IF o.kind = "raised"
    THEN [score |-> 0, reasoning |-> "Error"]
    ELSE score_with_anthropic(o)

\* lines 117-121: one job with the result of the scorer and its location score
Scored(job, result) ==
    [ external_id |-> job.external_id, source |-> job.source, title |-> job.title,
      company |-> job.company, location |-> job.location,
      match_score |-> result.score, match_reasoning |-> result.reasoning,
      location_score |-> get_location_score(job.location) ]

\* a sort key without the location score
SortsBeforeByMatch(x, y) ==
    x.match_score > y.match_score

\* line 139: x sorts before y under key (location_score, match_score), reverse=True
SortsBefore(x, y) ==
    \/ x.location_score > y.location_score
    \/ x.location_score = y.location_score /\ x.match_score > y.match_score

\* x put into a sorted list ahead of the jobs with its key
InsertSortedUnstable(sorted, x) ==
    LET before == { i \in DOMAIN sorted : SortsBefore(sorted[i], x) }
        n == Cardinality(before)
    IN  SubSeq(sorted, 1, n) \o <<x>> \o SubSeq(sorted, n + 1, Len(sorted))

\* x put into a sorted list behind every job that does not sort after it
InsertSorted(sorted, x) ==
    LET before == { i \in DOMAIN sorted : ~SortsBefore(x, sorted[i]) }
        n == Cardinality(before)
    IN  SubSeq(sorted, 1, n) \o <<x>> \o SubSeq(sorted, n + 1, Len(sorted))

RECURSIVE SortJobs(_)
\* list.sort(key=..., reverse=True): a stable sort, descending
SortJobs(xs) ==
    IF xs = <<>> THEN <<>>
    ELSE InsertSorted(SortJobs(SubSeq(xs, 1, Len(xs) - 1)), xs[Len(xs)])

\* models.py:20-25 and main.py:235: the commit raises IntegrityError when a
\* row has a null in a nullable=False column or breaks unique=True on
\* external_id, within the batch or against the table
CommitFails(rows) ==
    \/ \E i \in DOMAIN rows :
          \/ rows[i].external_id = None
          \/ rows[i].title = None
          \/ rows[i].company = None
          \/ rows[i].external_id \in existing_external_ids
    \/ \E i, j \in DOMAIN rows : i # j /\ rows[i].external_id = rows[j].external_id

\* the longest merged list of one run
MaxFetched == 2

\* the number of scheduled runs
MaxRuns == 2

\* the jobs the sources can have on offer in a run
Catalogue ==
    { Job("", "linkedin", "Senior Product Manager", "Stripe", "New York, NY"),
      Job(None, "indeed", "Director of Product", "Plaid", "NYC"),
      Job("greenhouse_42", "greenhouse", "VP of Product", "stripe", "Midtown Manhattan"),
      Job("lever_7", "lever", "Senior Product Manager", "Netflix", "Brooklyn, NY"),
      Job("", "linkedin", "Principal Product Manager", "Plaid", "Remote"),
      Job("lever_8", "lever", None, "Netflix", "Remote") }

Init ==
    /\ pc = "idle"
    /\ RunIdle
    /\ ParseIdle
    /\ AdapterIdle
    /\ ScrapeIdle
    /\ FetchIdle
    /\ DedupIdle
    /\ LocationIdle
    /\ RoleIdle

\* a _fetch_jobs that filters by location, role and seniority before the gate
FetchedEligibilityFirst(merged) ==
    /\ all_jobs' = merged
    /\ unique_jobs' = deduplicate_jobs(merged)
    /\ kept' = KeptPositions(merged)
    /\ new_jobs' = SelectSeq(SelectSeq(unique_jobs', PassesLocation), PassesRole)
    /\ pipeline_jobs' = SelectSeq(new_jobs', PassesGate)
    /\ pc' = IF pipeline_jobs' = <<>> THEN "done" ELSE "fetched"

\* _fetch_jobs (lines 175-210) on the merged list that fetch_all_jobs
\* returns: the list is deduplicated, gated against the table and filtered;
\* lines 109-113: the run is over when nothing is left
Fetched(merged) ==
    /\ all_jobs' = merged
    /\ unique_jobs' = deduplicate_jobs(merged)
    /\ kept' = KeptPositions(merged)
    /\ new_jobs' = SelectSeq(unique_jobs', PassesGate)
    /\ pipeline_jobs' = SelectSeq(SelectSeq(new_jobs', PassesLocation), PassesRole)
    /\ pc' = IF pipeline_jobs' = <<>> THEN "done" ELSE "fetched"

\* lines 107-113: the first step of a run, on what the sources have on offer
FetchJobs ==
    /\ pc = "idle"
    /\ \E merged \in SeqsUpTo(Catalogue, MaxFetched) :
          /\ ~DedupRaises(merged)
          /\ Fetched(merged)
    /\ UNCHANGED <<parseVars, adapterVars, scrapeVars, run, db, outcomes, scored_jobs, error, digest, repeated, fetchVars,
                   locVars, roleVars>>

\* line 180: fetch_all_jobs raises, and run_job_search with it
FetchJobsRaises ==
    /\ pc = "idle"
    /\ (\E merged \in SeqsUpTo(Catalogue, MaxFetched) : DedupRaises(merged)) = TRUE
    /\ pc' = "aborted"
    /\ error' = "AttributeError"
    /\ UNCHANGED <<parseVars, adapterVars, scrapeVars, run, db, new_jobs, pipeline_jobs, outcomes, scored_jobs, digest,
                   repeated, dedupVars, fetchVars, locVars, roleVars>>

\* a gate that takes the table for empty when the query fails
FetchJobsGateFailsOpen ==
    /\ pc = "idle"
    /\ \E merged \in SeqsUpTo(Catalogue, MaxFetched) :
          /\ ~DedupRaises(merged)
          /\ merged # <<>>
          /\ all_jobs' = merged
          /\ unique_jobs' = deduplicate_jobs(merged)
          /\ kept' = KeptPositions(merged)
    /\ new_jobs' = unique_jobs'
    /\ pipeline_jobs' = new_jobs'
    /\ pc' = "fetched"
    /\ error' = "OperationalError"
    /\ UNCHANGED <<parseVars, adapterVars, scrapeVars, run, db, outcomes, scored_jobs, digest, repeated,
                   fetchVars, locVars, roleVars>>

\* lines 183-186: fetch_all_jobs has returned and the query for the rows of
\* the jobs table raises, and run_job_search with it
FetchJobsGateFails ==
    /\ pc = "idle"
    /\ (\E merged \in SeqsUpTo(Catalogue, MaxFetched) : ~DedupRaises(merged)) = TRUE
    /\ pc' = "aborted"
    /\ error' = "OperationalError"
    /\ UNCHANGED <<parseVars, adapterVars, scrapeVars, run, db, new_jobs, pipeline_jobs, outcomes, scored_jobs, digest,
                   repeated, dedupVars, fetchVars, locVars, roleVars>>

\* lines 115-139: the jobs are scored, given their location score, filtered
\* by the minimum match score and sorted
ScoreAndRank ==
    /\ pc = "fetched"
    /\ \E o \in [DOMAIN pipeline_jobs -> ScorerOutcomes] :
          /\ outcomes' = o
          /\ scored_jobs' = [i \in DOMAIN pipeline_jobs |->
                                Scored(pipeline_jobs[i], score_job_in_batch(o[i]))]
    /\ LET MeetsMin(j) == j.match_score >= min_match_score
           filtered_jobs == SelectSeq(scored_jobs', MeetsMin)
       IN  /\ pipeline_jobs' = SortJobs(filtered_jobs)
           /\ pc' = IF filtered_jobs = <<>> THEN "done" ELSE "ranked"
    /\ UNCHANGED <<parseVars, adapterVars, scrapeVars, run, db, new_jobs, error, digest, repeated, dedupVars, fetchVars,
                   locVars, roleVars>>

\* lines 141-143, 212-236: the rows are added and committed
SaveJobs ==
    /\ pc = "ranked"
    /\ ~CommitFails(pipeline_jobs)
    /\ db' = db \cup { pipeline_jobs[i] : i \in DOMAIN pipeline_jobs }
    /\ pc' = "saved"
    /\ UNCHANGED <<parseVars, adapterVars, scrapeVars, run, new_jobs, pipeline_jobs, outcomes, scored_jobs, error, digest, repeated,
                   dedupVars, fetchVars, locVars, roleVars>>

\* line 235: the commit raises, nothing is stored, run_job_search raises
SaveJobsFails ==
    /\ pc = "ranked"
    /\ CommitFails(pipeline_jobs)
    /\ pc' = "aborted"
    /\ error' = "IntegrityError"
    /\ UNCHANGED <<parseVars, adapterVars, scrapeVars, run, db, new_jobs, pipeline_jobs, outcomes, scored_jobs, digest,
                   repeated, dedupVars, fetchVars, locVars, roleVars>>

\* lines 145-173: the steps after the save, the email digest the last
SendDigest ==
    /\ pc = "saved"
    /\ digest' = pipeline_jobs
    /\ pc' = "done"
    /\ UNCHANGED <<parseVars, adapterVars, scrapeVars, run, db, new_jobs, pipeline_jobs, outcomes, scored_jobs, error, repeated,
                   dedupVars, fetchVars, locVars, roleVars>>

\* scheduler.py:27-63: the next scheduled run starts, on the same table
NextRun ==
    /\ pc \in { "done", "aborted" }
    /\ run < MaxRuns
    /\ run' = run + 1
    /\ pc' = "idle"
    /\ new_jobs' = <<>>
    /\ pipeline_jobs' = <<>>
    /\ outcomes' = <<>>
    /\ scored_jobs' = <<>>
    /\ error' = "none"
    /\ digest' = <<>>
    /\ repeated' = FALSE
    /\ all_jobs' = <<>>
    /\ unique_jobs' = <<>>
    /\ kept' = <<>>
    /\ UNCHANGED <<parseVars, adapterVars, scrapeVars, db, fetchVars, locVars, roleVars>>

\* scheduler.py:27-63 and main.py:107-113: the next scheduled run starts
\* after a completed run, and the sources give it the output they gave that
\* run
RepeatRun ==
    /\ pc = "done"
    /\ run < MaxRuns
    /\ run' = run + 1
    /\ repeated' = TRUE
    /\ Fetched(all_jobs)
    /\ outcomes' = <<>>
    /\ scored_jobs' = <<>>
    /\ digest' = <<>>
    /\ UNCHANGED <<parseVars, adapterVars, scrapeVars, db, error, fetchVars, locVars, roleVars>>

Next ==
    \/ FetchJobs
    \/ FetchJobsRaises
    \/ FetchJobsGateFails
    \/ ScoreAndRank
    \/ SaveJobs
    \/ SaveJobsFails
    \/ SendDigest
    \/ NextRun
    \/ RepeatRun

Spec == Init /\ [][Next]_vars

\* C2: when a run follows a completed run and the sources give it the output
\* they gave that run, its _fetch_jobs yields no job: nothing is scored,
\* persisted or notified a second time.
C2_SecondRunFindsNothing ==
    repeated => (pc = "done" /\ pipeline_jobs = <<>>)

\* C10: a job whose external_id is missing or empty passes the ingestion gate,
\* whatever earlier runs have persisted.
C10_NoIdAlwaysNew ==
    \A i \in DOMAIN unique_jobs :
        Falsy(unique_jobs[i].external_id) =>
            \E k \in DOMAIN new_jobs : new_jobs[k] = unique_jobs[i]

\* the job a scored job was made from
Unscored(j) == Job(j.external_id, j.source, j.title, j.company, j.location)

\* the position in new_jobs, the list the run passes down to the ranker, of
\* the job a scored job was made from
InputPosition(j) == CHOOSE k \in DOMAIN new_jobs : new_jobs[k] = Unscored(j)

\* C11: after the ranking step the list is in descending order of
\* location_score and, where that is equal, of match_score, and every job of
\* it carries both keys.
C11_RankedByLocationThenMatch ==
    pc \in { "ranked", "saved" } =>
        /\ \A i \in DOMAIN pipeline_jobs :
              { "location_score", "match_score" } \subseteq DOMAIN pipeline_jobs[i]
        /\ \A i, j \in DOMAIN pipeline_jobs :
              i < j =>
                \/ pipeline_jobs[i].location_score > pipeline_jobs[j].location_score
                \/ /\ pipeline_jobs[i].location_score = pipeline_jobs[j].location_score
                   /\ pipeline_jobs[i].match_score >= pipeline_jobs[j].match_score

\* C11 witness: the ranking moved a job with the higher location score and
\* the lower match score ahead of a job that came before it
C11_Witness ==
    /\ pc = "ranked"
    /\ Len(pipeline_jobs) = 2
    /\ pipeline_jobs[1].location_score > pipeline_jobs[2].location_score
    /\ pipeline_jobs[1].match_score < pipeline_jobs[2].match_score
    /\ InputPosition(pipeline_jobs[1]) > InputPosition(pipeline_jobs[2])

\* C12: two ranked jobs with the same location_score and the same match_score
\* are in the order in which they went into the ranking.
C12_RankingStable ==
    pc \in { "ranked", "saved" } =>
        \A i, j \in DOMAIN pipeline_jobs :
            ( /\ i < j
              /\ pipeline_jobs[i].location_score = pipeline_jobs[j].location_score
              /\ pipeline_jobs[i].match_score = pipeline_jobs[j].match_score )
            => InputPosition(pipeline_jobs[i]) < InputPosition(pipeline_jobs[j])

\* C12 witness: two ranked jobs tie on both keys
C12_Witness ==
    /\ pc = "ranked"
    /\ \E i, j \in DOMAIN pipeline_jobs :
          /\ i < j
          /\ pipeline_jobs[i].location_score = pipeline_jobs[j].location_score
          /\ pipeline_jobs[i].match_score = pipeline_jobs[j].match_score

\* C13: a job whose scoring failed, by an API error, an exception or a
\* response without a readable score, is in the result of score_jobs_batch
\* with match_score 0.
C13_ScoringFailureScoresZero ==
    /\ Len(scored_jobs) = Len(outcomes)
    /\ \A i \in DOMAIN outcomes :
          outcomes[i].kind # "response" => scored_jobs[i].match_score = 0

\* C15: when the query for the persisted external ids fails, the run aborts:
\* nothing is scored or sent in this run, no further step of the run can be
\* taken, and the table is as it was.
C15_GateFailureAborts ==
    /\ [](error = "OperationalError" =>
            /\ pc = "aborted"
            /\ outcomes = <<>>
            /\ scored_jobs = <<>>
            /\ digest = <<>>
            /\ ~ENABLED (ScoreAndRank \/ SaveJobs \/ SendDigest))
    /\ [][error' = "OperationalError" => db' = db]_vars

\* C15 witness: the query failed in a run that follows a run which saved jobs
C15_Witness ==
    /\ error = "OperationalError"
    /\ run > 1
    /\ db # {}

\* C16: a save of a batch in which two jobs share an external_id does not
\* fail the run, and the table holds one row for each external_id.
C16_SaveIdempotentOnExternalId ==
    /\ (pc = "aborted" /\ error = "IntegrityError") =>
          \E i \in DOMAIN pipeline_jobs :
              pipeline_jobs[i].external_id = None
    /\ \A r1, r2 \in db : r1.external_id = r2.external_id => r1 = r2

\* a job that the location, role and seniority predicates accept
Eligible(job) ==
    /\ matches_location_preference(job.location)
    /\ is_product_manager_role(job.title)
    /\ meets_seniority_requirement(job.title, "Senior")

\* C17: the list _fetch_jobs returns is a fixed point of its filters: the
\* location, role and seniority predicates applied to it again give the same
\* jobs in the same order.
C17_FilterIdempotent ==
    pc = "fetched" => SelectSeq(pipeline_jobs, Eligible) = pipeline_jobs

\* C17 witness: _fetch_jobs returned a job and its filters dropped another
C17_Witness ==
    /\ pc = "fetched"
    /\ pipeline_jobs # <<>>
    /\ Len(pipeline_jobs) < Len(new_jobs)

\* a job whose external_id no row of the table has
NotPersisted(job) == \A row \in db : row.external_id # job.external_id

\* the set of the elements of a list of jobs
JobsOf(list) == { list[i] : i \in DOMAIN list }

\* C27: the stages run in the order dedup, ingestion gate, eligibility, rank:
\* the gate takes the deduplicated list, the eligibility predicates take what
\* passed the gate and no job with a persisted external_id, and the ranking
\* has only jobs that passed the gate and the eligibility predicates.
C27_StageOrder ==
    /\ pc = "fetched" =>
          /\ unique_jobs = deduplicate_jobs(all_jobs)
          /\ new_jobs = SelectSeq(unique_jobs, NotPersisted)
          /\ pipeline_jobs = SelectSeq(new_jobs, Eligible)
    /\ pc = "ranked" =>
          LET eligible_jobs == JobsOf(SelectSeq(new_jobs, Eligible))
          IN  \A i \in DOMAIN pipeline_jobs : Unscored(pipeline_jobs[i]) \in eligible_jobs

\* C27 witness: in a later run the gate dropped a job with a persisted
\* external_id and another job went through to the ranking
C27_Witness ==
    /\ pc = "ranked"
    /\ run > 1
    /\ Len(new_jobs) < Len(unique_jobs)
    /\ pipeline_jobs # <<>>

\* C29: a job that a run persists or puts into the digest passed the gate
\* of this run with an external_id that no row had, passed the location, role
\* and seniority predicates, and has a match_score of min_match_score or more.
C29_PersistedJobsQualified ==
    /\ [][\A row \in db' \ db :
             /\ NotPersisted(row)
             /\ Unscored(row) \in JobsOf(new_jobs)
             /\ Eligible(row)
             /\ row.match_score >= min_match_score]_vars
    /\ [](\A i \in DOMAIN digest :
             /\ digest[i] \in db
             /\ Unscored(digest[i]) \in JobsOf(new_jobs)
             /\ Eligible(digest[i])
             /\ digest[i].match_score >= min_match_score)

\* C29 witness: a run after a run that persisted a job has persisted another
\* and sent it
C29_Witness ==
    /\ pc = "done"
    /\ run > 1
    /\ digest # <<>>
    /\ Cardinality(db) > Len(digest)

\* C30: after score_jobs_batch every match_score is between 0 and 100.
C30_ScoreInRange ==
    \A i \in DOMAIN scored_jobs :
        scored_jobs[i].match_score >= 0 /\ scored_jobs[i].match_score <= 100

====
